---- MODULE Spec2Model ----
(***************************************************************************)
(* Model of BedrockAgentCore (cdk/lambda/oscar-agent/bedrock/              *)
(* agent_invoker.py): building the agent request, the remote invoke call,  *)
(* the reduction of the streamed completion events to a response text and  *)
(* a session id, and the exception handlers around them.                   *)
(*                                                                         *)
(* Python values are modelled as follows.  A dict is a function whose      *)
(* DOMAIN is its key set (the empty dict is <<>>).  A str that the code    *)
(* only compares or passes on (ids, names) is a TLA+ string; a str the     *)
(* code concatenates or strips (response text, tool content) is a sequence *)
(* of one-character strings.  bytes is a sequence of integers 0..255.      *)
(***************************************************************************)
EXTENDS Integers, Sequences, FiniteSets, TLC

VARIABLES
    pc,                   \* position of the invoke_agent call
    query,                \* argument: query
    privilege,            \* argument: privilege
    session_id,           \* argument: session_id (None when not passed)
    now,                  \* last value int(time.time()) returned
    request,              \* local: request
    invoke_calls,         \* number of client.invoke_agent calls issued
    service_error,        \* the exception client.invoke_agent raised
    response,             \* local: response (the envelope)
    response_text,        \* local: response_text
    returned_session_id,  \* local: returned_session_id
    all_events,           \* local: all_events
    result,               \* the tuple invoke_agent returned
    error                 \* the exception invoke_agent raised

vars == <<pc, query, privilege, session_id, now, request, invoke_calls,
          service_error, response, response_text, returned_session_id,
          all_events, result, error>>

(* Several invoke_agent calls on one BedrockAgentCore instance *)
VARIABLES
    config,               \* self.timeout and self.max_retries
    clock,                \* time.time(), in ticks of a fraction of a second
    calls,                \* per call: arguments, position, request, outcome
    frames                \* per activation: response_text, returned_session_id

convars == <<config, clock, calls, frames>>

(* The docs uploader: lambda_handler of docs_uploader.py *)
VARIABLES
    handler_pc,           \* position of the lambda_handler invocation
    lambda_event,         \* argument: event
    environ,              \* os.environ.get('BUCKET_NAME')
    temp_dir,             \* local: temp_dir
    filesystem,           \* the directories that exist under the temp root
    clone_log,            \* the git clone runs so far, with their outcome
    sync_log,             \* the aws s3 sync runs so far, with their outcome
    bucket_objects,       \* the top-level prefixes in the S3 bucket
    handler_return        \* the dict lambda_handler returned

docvars == <<handler_pc, lambda_event, environ, temp_dir, filesystem,
             clone_log, sync_log, bucket_objects, handler_return>>

(* The CDK app: main() of app.py and the stacks it constructs *)
VARIABLES
    app_pc,               \* position of main()
    environment,          \* local: environment
    lambda_stack,         \* the Lambda stack object: class, lambda_functions
    api_gateway_stack,    \* OscarApiGatewayStack: self.lambda_function
    cfn_agents,           \* the bedrock.CfnAgent resources of OscarAgentsStack
    ssm_parameters,       \* the ssm.StringParameter resources
    policy_statements,    \* what get_communication_handler_policies gave
    app_error             \* the exception main() raised

stackvars == <<app_pc, environment, lambda_stack, api_gateway_stack,
               cfn_agents, ssm_parameters, policy_statements, app_error>>

(* cleanup_non_markdown_files of docs_uploader.py on one cloned repository *)
VARIABLES
    cleanup_pc,           \* position of the cleanup_non_markdown_files call
    cloned,               \* the working tree git clone left in repo_path
    repo_tree,            \* the directories and files now under repo_path
    to_walk               \* the directories os.walk has still to yield

cleanvars == <<cleanup_pc, cloned, repo_tree, to_walk>>

allvars == <<vars, convars, docvars, stackvars, cleanvars>>

-----------------------------------------------------------------------------
(* Bounds of the model *)

MaxEvents == 3    \* events delivered by one completion stream
MaxClock == 1     \* largest whole-second clock value
MaxConcEvents == 2    \* events per stream when two calls run concurrently
TicksPerSecond == 2   \* resolution of time.time() within one second
MaxRepos == 2         \* repositories named by one uploader event
MaxAgentIds == 6      \* agent ids the deployment can hand out
MaxFiles == 3         \* tracked files in one cloned repository

-----------------------------------------------------------------------------
(* Python values *)

None == "<None>"
EmptyDict == <<>>
EmptyText == <<>>
NoResult == <<>>
NoError == [type |-> "None"]

Get(d, k, default) == IF k \in DOMAIN d THEN d[k] ELSE default

TruthyStr(s) == s # None /\ s # ""

TruthyText(s) == Len(s) > 0

Whitespace == {" "}

RECURSIVE LStrip(_)
LStrip(s) ==
    IF s = <<>> THEN s
    ELSE IF Head(s) \in Whitespace THEN LStrip(Tail(s))
    ELSE s

RECURSIVE RStrip(_)
RStrip(s) ==
    IF s = <<>> THEN s
    ELSE IF s[Len(s)] \in Whitespace THEN RStrip(SubSeq(s, 1, Len(s) - 1))
    ELSE s

Strip(s) == RStrip(LStrip(s))

(* bytes.decode('utf-8') on the byte values the model uses: 0x20, 0x61 and *)
(* 0x62 are one-byte characters; 0xFF can occur in no UTF-8 sequence.      *)
CharOf(b) == CASE b = 32 -> " " [] b = 97 -> "a" [] b = 98 -> "b"

Decodable(bytes) == \A i \in 1..Len(bytes) : bytes[i] < 128

Decode(bytes) == [i \in 1..Len(bytes) |-> CharOf(bytes[i])]

SessionFor(t) == "session-" \o ToString(t)

-----------------------------------------------------------------------------
(* config: the two agent/alias pairs read in __init__ *)

privileged_agent_id == "PRIV-AGENT"
privileged_agent_alias_id == "PRIV-ALIAS"
limited_agent_id == "LIM-AGENT"
limited_agent_alias_id == "LIM-ALIAS"

-----------------------------------------------------------------------------
(* Inputs *)

Queries == {"q1", "q2"}

SessionArgs == {None, "", "abc"}

SendMessage == "AgentCommunication__sendMessage"

(* Raw-response content strings and what json.loads makes of them. *)
RawEmpty == ""
RawBroken == "{\"output\": "
RawArray == "[]"
RawToolT ==
    "{\"output\":{\"message\":{\"content\":[{\"toolUse\":{\"name\":\"AgentCommunication__sendMessage\",\"input\":{\"recipient\":\"User\",\"content\":\"t\"}}}]}}}"
RawToolU ==
    "{\"output\":{\"message\":{\"content\":[{\"text\":\"x\"},{\"toolUse\":{\"name\":\"AgentCommunication__sendMessage\",\"input\":{\"recipient\":\"User\",\"content\":\"t\"}}},{\"toolUse\":{\"name\":\"AgentCommunication__sendMessage\",\"input\":{\"recipient\":\"User\",\"content\":\"u \"}}}]}}}"
RawNoTool ==
    "{\"output\":{\"message\":{\"content\":[{\"toolUse\":{\"name\":\"search\",\"input\":{\"recipient\":\"User\",\"content\":\"x\"}}},{\"toolUse\":{\"name\":\"AgentCommunication__sendMessage\",\"input\":{\"recipient\":\"metrics-agent\",\"content\":\"x\"}}},{\"toolUse\":{\"name\":\"AgentCommunication__sendMessage\",\"input\":{\"recipient\":\"User\",\"content\":\"\"}}}]}}}"

ToolUse(name, recipient, content) ==
    [toolUse |-> [name |-> name,
                  input |-> [recipient |-> recipient, content |-> content]]]

Message(items) == [output |-> [message |-> [content |-> items]]]

(* json.loads: ok = FALSE stands for json.JSONDecodeError. *)
json_loads(raw) ==
    CASE raw = RawToolT ->
           [ok |-> TRUE, type |-> "dict",
            value |-> Message(<<ToolUse(SendMessage, "User", <<"t">>)>>)]
      [] raw = RawToolU ->
           [ok |-> TRUE, type |-> "dict",
            value |-> Message(<<[text |-> <<"x">>],
                                ToolUse(SendMessage, "User", <<"t">>),
                                ToolUse(SendMessage, "User", <<"u", " ">>)>>)]
      [] raw = RawNoTool ->
           [ok |-> TRUE, type |-> "dict",
            value |-> Message(<<ToolUse("search", "User", <<"x">>),
                                ToolUse(SendMessage, "metrics-agent", <<"x">>),
                                ToolUse(SendMessage, "User", EmptyText)>>)]
      [] raw = RawArray ->
           [ok |-> TRUE, type |-> "list", value |-> <<>>]
      [] OTHER -> [ok |-> FALSE]

TraceEvent(rawResponse) ==
    [trace |-> [trace |-> [orchestrationTrace |->
        [modelInvocationOutput |-> [rawResponse |-> rawResponse]]]]]

ChunkEvents ==
    { [chunk |-> [bytes |-> <<97>>]],
      [chunk |-> [bytes |-> <<32, 98>>, sessionId |-> "chk-1"]],
      [chunk |-> [bytes |-> <<255>>]] }

TraceEvents ==
    { TraceEvent([content |-> RawBroken]),
      TraceEvent([content |-> RawEmpty]),
      TraceEvent([metadata |-> "usage"]),
      TraceEvent([content |-> RawToolT]),
      TraceEvent([content |-> RawToolU]),
      TraceEvent([content |-> RawNoTool]),
      TraceEvent([content |-> RawArray]) }

OtherEvents == { [returnControl |-> "invocation"] }

Events == ChunkEvents \cup TraceEvents \cup OtherEvents

Envelopes ==
    { [ResponseMetadata |-> "200", completion |-> "EventStream"],
      [ResponseMetadata |-> "200", completion |-> "EventStream", sessionId |-> "env-1"],
      [ResponseMetadata |-> "200", completion |-> "EventStream", sessionId |-> ""],
      [ResponseMetadata |-> "200"],
      [ResponseMetadata |-> "200", sessionId |-> "env-1"] }

ClientErrors ==
    { [type |-> "ClientError", code |-> "ThrottlingException", message |-> "Rate exceeded"],
      [type |-> "ClientError", code |-> "AccessDeniedException", message |-> "Not authorized"] }

-----------------------------------------------------------------------------
(* create_agent_request; t is the value of int(time.time()) *)

create_agent_request_limited_alias(q, priv, sid, t) ==
    [agentId |-> IF priv THEN privileged_agent_id ELSE limited_agent_id,
     agentAliasId |-> limited_agent_alias_id,
     inputText |-> q,
     sessionId |-> IF TruthyStr(sid) THEN sid ELSE SessionFor(t),
     enableTrace |-> TRUE]

create_agent_request(q, priv, sid, t) ==
    [agentId |-> IF priv THEN privileged_agent_id ELSE limited_agent_id,
     agentAliasId |-> IF priv THEN privileged_agent_alias_id
                      ELSE limited_agent_alias_id,
     inputText |-> q,
     sessionId |-> IF TruthyStr(sid) THEN sid ELSE SessionFor(t),
     enableTrace |-> TRUE]

-----------------------------------------------------------------------------
(* invoke_agent: the trace branch of the loop body (lines 121-152).  Each  *)
(* step returns the exception it raised (NoError if none) and the new      *)
(* value of response_text.                                                 *)

ItemText_any_recipient(content_item, text) ==
    IF "toolUse" \in DOMAIN content_item
    THEN LET tool_use == content_item.toolUse IN
         IF DOMAIN tool_use # {} /\ Get(tool_use, "name", None) = SendMessage
         THEN LET extracted_content ==
                      Get(Get(tool_use, "input", EmptyDict), "content", EmptyText)
              IN  IF TruthyText(extracted_content) THEN extracted_content
                  ELSE text
         ELSE text
    ELSE text

ItemText(content_item, text) ==
    IF "toolUse" \in DOMAIN content_item
    THEN LET tool_use == content_item.toolUse IN
         IF DOMAIN tool_use # {} /\ Get(tool_use, "name", None) = SendMessage
         THEN LET tool_input == Get(tool_use, "input", EmptyDict) IN
              IF Get(tool_input, "recipient", None) = "User"
              THEN LET extracted_content == Get(tool_input, "content", EmptyText) IN
                   IF TruthyText(extracted_content) THEN extracted_content
                   ELSE text
              ELSE text
         ELSE text
    ELSE text

RECURSIVE ScanContent(_, _)
ScanContent(message_content, text) ==
    IF message_content = <<>> THEN text
    ELSE ScanContent(Tail(message_content), ItemText(Head(message_content), text))

ParseRawResponse_uncaught(raw_content, text) ==
    LET parsed == json_loads(raw_content) IN
    IF ~parsed.ok
    THEN [exc |-> [type |-> "JSONDecodeError"], text |-> text]
    ELSE IF parsed.type # "dict"
    THEN [exc |-> [type |-> "AttributeError"], text |-> text]
    ELSE [exc |-> NoError,
          text |-> ScanContent(
              Get(Get(Get(parsed.value, "output", EmptyDict),
                      "message", EmptyDict), "content", <<>>), text)]

ParseRawResponse(raw_content, text) ==
    LET parsed == json_loads(raw_content) IN
    IF ~parsed.ok
    THEN [exc |-> NoError, text |-> text]
    ELSE IF parsed.type # "dict"
    THEN [exc |-> [type |-> "AttributeError"], text |-> text]
    ELSE [exc |-> NoError,
          text |-> ScanContent(
              Get(Get(Get(parsed.value, "output", EmptyDict),
                      "message", EmptyDict), "content", <<>>), text)]

TraceStep(event, text) ==
    IF "trace" \in DOMAIN event
    THEN LET trace == Get(event.trace, "trace", EmptyDict) IN
         IF "orchestrationTrace" \in DOMAIN trace
         THEN LET orch_trace == trace.orchestrationTrace IN
              IF "modelInvocationOutput" \in DOMAIN orch_trace
              THEN LET model_output == orch_trace.modelInvocationOutput IN
                   IF "rawResponse" \in DOMAIN model_output
                   THEN ParseRawResponse(
                            Get(model_output.rawResponse, "content", ""), text)
                   ELSE [exc |-> NoError, text |-> text]
              ELSE [exc |-> NoError, text |-> text]
         ELSE [exc |-> NoError, text |-> text]
    ELSE [exc |-> NoError, text |-> text]

-----------------------------------------------------------------------------
(* invoke_agent: the chunk branch of the loop body (lines 156-170) *)

AppendChunkText_always(text, chunk_text) == text \o chunk_text

AppendChunkText_replace(text, chunk_text) == chunk_text

AppendChunkText(text, chunk_text) ==
    IF ~TruthyText(text) THEN text \o chunk_text ELSE text

ChunkBytes_lazy(chunk, text) ==
    IF "bytes" \in DOMAIN chunk /\ ~TruthyText(text)
    THEN IF Decodable(chunk.bytes)
         THEN [exc |-> NoError, text |-> text \o Decode(chunk.bytes)]
         ELSE [exc |-> [type |-> "UnicodeDecodeError"], text |-> text]
    ELSE [exc |-> NoError, text |-> text]

ChunkBytes(chunk, text) ==
    IF "bytes" \in DOMAIN chunk
    THEN IF Decodable(chunk.bytes)
         THEN [exc |-> NoError,
               text |-> AppendChunkText(text, Decode(chunk.bytes))]
         ELSE [exc |-> [type |-> "UnicodeDecodeError"], text |-> text]
    ELSE [exc |-> NoError, text |-> text]

ChunkStep_get_default(event, text, sid) ==
    LET chunk == Get(event, "chunk", EmptyDict)
        b == ChunkBytes(chunk, text)
    IN  IF b.exc # NoError
        THEN [exc |-> b.exc, text |-> b.text, sid |-> sid]
        ELSE [exc |-> NoError, text |-> b.text,
              sid |-> Get(chunk, "sessionId", None)]

ChunkStep_sid_with_text(event, text, sid) ==
    IF "chunk" \in DOMAIN event
    THEN LET chunk == event.chunk
             b == ChunkBytes(chunk, text)
         IN  IF b.exc # NoError
             THEN [exc |-> b.exc, text |-> b.text, sid |-> sid]
             ELSE [exc |-> NoError, text |-> b.text,
                   sid |-> IF "sessionId" \in DOMAIN chunk /\ ~TruthyText(text)
                           THEN chunk.sessionId ELSE sid]
    ELSE [exc |-> NoError, text |-> text, sid |-> sid]

ChunkStep(event, text, sid) ==
    IF "chunk" \in DOMAIN event
    THEN LET chunk == event.chunk
             b == ChunkBytes(chunk, text)
         IN  IF b.exc # NoError
             THEN [exc |-> b.exc, text |-> b.text, sid |-> sid]
             ELSE [exc |-> NoError, text |-> b.text,
                   sid |-> IF "sessionId" \in DOMAIN chunk
                           THEN chunk.sessionId ELSE sid]
    ELSE [exc |-> NoError, text |-> text, sid |-> sid]

(* One pass of the loop body over one event. *)
LoopBody(event, text, sid) ==
    LET t == TraceStep(event, text) IN
    IF t.exc # NoError
    THEN [exc |-> t.exc, text |-> t.text, sid |-> sid]
    ELSE ChunkStep(event, t.text, sid)

-----------------------------------------------------------------------------
(* invoke_agent: session id resolution after the loop (lines 176-189) *)

GeneratesSessionId(resp, returned, sid) ==
    /\ "sessionId" \notin DOMAIN resp
    /\ ~(~TruthyStr(returned) /\ TruthyStr(sid))

ResolveSessionId_request_first(resp, returned, sid, t) ==
    IF ~TruthyStr(returned) /\ TruthyStr(sid) THEN sid
    ELSE IF "sessionId" \in DOMAIN resp THEN resp.sessionId
    ELSE SessionFor(t)

ResolveSessionId_never_request(resp, returned, sid, t) ==
    IF "sessionId" \in DOMAIN resp THEN resp.sessionId
    ELSE SessionFor(t)

ResolveSessionId(resp, returned, sid, t) ==
    IF "sessionId" \in DOMAIN resp THEN resp.sessionId
    ELSE IF ~TruthyStr(returned) /\ TruthyStr(sid) THEN sid
    ELSE SessionFor(t)

(* invoke_agent: the except clauses (lines 196-203); both log and re-raise *)
invoke_agent_except_wrapped(e) ==
    IF e.type = "ClientError"
    THEN [type |-> "Exception", code |-> "Unknown", message |-> e.message]
    ELSE e

invoke_agent_except(e) ==
    IF e.type = "ClientError" THEN e ELSE e

-----------------------------------------------------------------------------
(* The parts of the state a specification does not use stay as follows. *)

ConcIdle ==
    /\ config = EmptyDict
    /\ clock = 0
    /\ calls = <<>>
    /\ frames = <<>>

DocsIdle ==
    /\ handler_pc = "idle"
    /\ lambda_event = EmptyDict
    /\ environ = None
    /\ temp_dir = None
    /\ filesystem = {}
    /\ clone_log = <<>>
    /\ sync_log = <<>>
    /\ bucket_objects = {}
    /\ handler_return = EmptyDict

(* get_communication_handler_policies has not been called *)
NotCalled == [raised |-> NoError, called |-> FALSE]

StacksIdle ==
    /\ app_pc = "idle"
    /\ environment = None
    /\ lambda_stack = EmptyDict
    /\ api_gateway_stack = EmptyDict
    /\ cfn_agents = EmptyDict
    /\ ssm_parameters = {}
    /\ policy_statements = NotCalled
    /\ app_error = NoError

CleanupIdle ==
    /\ cleanup_pc = "idle"
    /\ cloned = EmptyDict
    /\ repo_tree = EmptyDict
    /\ to_walk = {}

InvokeIdle ==
    /\ pc = "idle"
    /\ query = "q1"
    /\ privilege = FALSE
    /\ session_id = None
    /\ now = 0
    /\ request = EmptyDict
    /\ invoke_calls = 0
    /\ service_error = NoError
    /\ response = EmptyDict
    /\ response_text = EmptyText
    /\ returned_session_id = None
    /\ all_events = <<>>
    /\ result = NoResult
    /\ error = NoError

-----------------------------------------------------------------------------
(* The call as a state machine *)

Init ==
    /\ CleanupIdle
    /\ StacksIdle
    /\ pc = "start"
    /\ query \in Queries
    /\ privilege \in BOOLEAN
    /\ session_id \in SessionArgs
    /\ now = 0
    /\ request = EmptyDict
    /\ invoke_calls = 0
    /\ service_error = NoError
    /\ response = EmptyDict
    /\ response_text = EmptyText
    /\ returned_session_id = None
    /\ all_events = <<>>
    /\ result = NoResult
    /\ error = NoError
    /\ ConcIdle
    /\ DocsIdle

(* line 99: request = self.create_agent_request(query, privilege, session_id); *)
(* the clock is read only when session_id is falsy                             *)
CreateRequest ==
    /\ pc = "start"
    /\ \E t \in now..MaxClock :
          /\ TruthyStr(session_id) => t = now
          /\ now' = t
          /\ request' = create_agent_request(query, privilege, session_id, t)
    /\ pc' = "requested"
    /\ UNCHANGED <<query, privilege, session_id, invoke_calls, service_error,
                   response, response_text, returned_session_id, all_events,
                   result, error>>
    /\ UNCHANGED <<convars, docvars, stackvars, cleanvars>>

(* lines 104-112: the remote call returns an envelope *)
InvokeReturns ==
    /\ pc = "requested"
    /\ \E resp \in Envelopes : response' = resp
    /\ invoke_calls' = invoke_calls + 1
    /\ response_text' = EmptyText
    /\ returned_session_id' = None
    /\ all_events' = <<>>
    /\ pc' = "streaming"
    /\ UNCHANGED <<query, privilege, session_id, now, request, service_error,
                   result, error>>
    /\ UNCHANGED <<convars, docvars, stackvars, cleanvars>>

(* lines 104, 196-200: the remote call raises a ClientError *)
InvokeRaises ==
    /\ pc = "requested"
    /\ \E e \in ClientErrors :
          /\ service_error' = e
          /\ error' = invoke_agent_except(e)
    /\ invoke_calls' = invoke_calls + 1
    /\ pc' = "raised"
    /\ UNCHANGED <<query, privilege, session_id, now, request, response,
                   response_text, returned_session_id, all_events, result>>
    /\ UNCHANGED <<convars, docvars, stackvars, cleanvars>>

(* lines 116-170: the stream delivers one more event *)
ProcessEvent ==
    /\ pc = "streaming"
    /\ "completion" \in DOMAIN response
    /\ Len(all_events) < MaxEvents
    /\ \E event \in Events :
          LET r == LoopBody(event, response_text, returned_session_id) IN
          /\ all_events' = Append(all_events, event)
          /\ response_text' = r.text
          /\ returned_session_id' = r.sid
          /\ IF r.exc # NoError
             THEN /\ pc' = "raised"
                  /\ error' = invoke_agent_except(r.exc)
             ELSE /\ pc' = "streaming"
                  /\ error' = error
    /\ UNCHANGED <<query, privilege, session_id, now, request, invoke_calls,
                   service_error, response, result>>
    /\ UNCHANGED <<convars, docvars, stackvars, cleanvars>>

(* lines 171-194: the stream is exhausted (or the envelope has none); the  *)
(* session id is resolved and the tuple returned                           *)
Return ==
    /\ pc = "streaming"
    /\ \E t \in now..MaxClock :
          /\ ~GeneratesSessionId(response, returned_session_id, session_id)
                => t = now
          /\ now' = t
          /\ result' = <<Strip(response_text),
                         ResolveSessionId(response, returned_session_id,
                                          session_id, t)>>
    /\ pc' = "returned"
    /\ UNCHANGED <<query, privilege, session_id, request, invoke_calls,
                   service_error, response, response_text,
                   returned_session_id, all_events, error>>
    /\ UNCHANGED <<convars, docvars, stackvars, cleanvars>>

Next ==
    \/ CreateRequest
    \/ InvokeReturns
    \/ InvokeRaises
    \/ ProcessEvent
    \/ Return

Spec == Init /\ [][Next]_vars

-----------------------------------------------------------------------------
(* Two invoke_agent calls on the same instance, their steps interleaved.   *)
(* The instance holds the client, the four ids and the two settings; the   *)
(* running values live in the frame of each activation.                    *)

CallIds == {1, 2}

Configs ==
    { [agent_timeout |-> 30, agent_max_retries |-> 0],
      [agent_timeout |-> 90, agent_max_retries |-> 3] }

MaxTick == TicksPerSecond

(* int(time.time()) *)
Seconds_unrounded(c) == c

Seconds(c) == c \div TicksPerSecond

CallQuery(i) == IF i = 1 THEN "q1" ELSE "q2"

CallPrivilege(i) == i = 1

(* response_text and returned_session_id are locals of the activation *)
FrameOf_instance(i) == 1

FrameOf(i) == i

NewFrame == [response_text |-> EmptyText, returned_session_id |-> None]

NewCall(sid) ==
    [pc |-> "start", session_id |-> sid, request |-> EmptyDict,
     built_at |-> 0, invocations |-> 0, response |-> EmptyDict,
     events |-> <<>>, result |-> NoResult, returned_at |-> 0,
     error |-> NoError]

ConcEvents ==
    { [chunk |-> [bytes |-> <<32, 98>>, sessionId |-> "chk-1"]],
      TraceEvent([content |-> RawToolT]),
      [chunk |-> [bytes |-> <<255>>]] }

ConcEnvelope == [ResponseMetadata |-> "200", completion |-> "EventStream"]

InitConc ==
    /\ CleanupIdle
    /\ StacksIdle
    /\ InvokeIdle
    /\ DocsIdle
    /\ config \in Configs
    /\ clock = 0
    /\ calls \in [CallIds -> {NewCall(sid) : sid \in {None, "abc"}}]
    /\ frames = [i \in CallIds |-> NewFrame]

Tick ==
    /\ clock < MaxTick
    /\ clock' = clock + 1
    /\ UNCHANGED <<config, calls, frames>>
    /\ UNCHANGED <<vars, docvars, stackvars, cleanvars>>

(* line 99 *)
CallCreateRequest(i) ==
    /\ calls[i].pc = "start"
    /\ calls' = [calls EXCEPT
          ![i].pc = "requested",
          ![i].request = create_agent_request(CallQuery(i), CallPrivilege(i),
                             calls[i].session_id, Seconds(clock)),
          ![i].built_at = clock]
    /\ UNCHANGED <<config, clock, frames>>
    /\ UNCHANGED <<vars, docvars, stackvars, cleanvars>>

(* lines 104-112 *)
CallInvokeReturns(i) ==
    /\ calls[i].pc = "requested"
    /\ calls' = [calls EXCEPT
          ![i].pc = "streaming",
          ![i].invocations = @ + 1,
          ![i].response = ConcEnvelope,
          ![i].events = <<>>]
    /\ frames' = [frames EXCEPT ![FrameOf(i)] = NewFrame]
    /\ UNCHANGED <<config, clock>>
    /\ UNCHANGED <<vars, docvars, stackvars, cleanvars>>

CallInvokeRaises_retry(i) ==
    /\ calls[i].pc = "requested"
    /\ \E e \in ClientErrors :
          calls' = [calls EXCEPT
              ![i].pc = IF calls[i].invocations < config.agent_max_retries
                        THEN "requested" ELSE "raised",
              ![i].invocations = @ + 1,
              ![i].error = IF calls[i].invocations < config.agent_max_retries
                           THEN NoError ELSE invoke_agent_except(e)]
    /\ UNCHANGED <<config, clock, frames>>
    /\ UNCHANGED <<vars, docvars, stackvars, cleanvars>>

(* lines 104, 196-200 *)
CallInvokeRaises(i) ==
    /\ calls[i].pc = "requested"
    /\ \E e \in ClientErrors :
          calls' = [calls EXCEPT
              ![i].pc = "raised",
              ![i].invocations = @ + 1,
              ![i].error = invoke_agent_except(e)]
    /\ UNCHANGED <<config, clock, frames>>
    /\ UNCHANGED <<vars, docvars, stackvars, cleanvars>>

(* lines 116-170, 201-203 *)
CallProcessEvent(i) ==
    /\ calls[i].pc = "streaming"
    /\ Len(calls[i].events) < MaxConcEvents
    /\ \E event \in ConcEvents :
          LET frame == frames[FrameOf(i)]
              r == LoopBody(event, frame.response_text,
                            frame.returned_session_id)
          IN  /\ frames' = [frames EXCEPT ![FrameOf(i)] =
                    [response_text |-> r.text, returned_session_id |-> r.sid]]
              /\ calls' = [calls EXCEPT
                    ![i].events = Append(@, event),
                    ![i].pc = IF r.exc # NoError THEN "raised" ELSE "streaming",
                    ![i].error = IF r.exc # NoError
                                 THEN invoke_agent_except(r.exc) ELSE @]
    /\ UNCHANGED <<config, clock>>
    /\ UNCHANGED <<vars, docvars, stackvars, cleanvars>>

(* lines 171-194 *)
CallReturn(i) ==
    /\ calls[i].pc = "streaming"
    /\ LET frame == frames[FrameOf(i)] IN
       calls' = [calls EXCEPT
          ![i].pc = "returned",
          ![i].returned_at = clock,
          ![i].result = <<Strip(frame.response_text),
                          ResolveSessionId(calls[i].response,
                              frame.returned_session_id,
                              calls[i].session_id, Seconds(clock))>>]
    /\ UNCHANGED <<config, clock, frames>>
    /\ UNCHANGED <<vars, docvars, stackvars, cleanvars>>

NextConc ==
    \/ Tick
    \/ \E i \in CallIds : CallCreateRequest(i)
    \/ \E i \in CallIds : CallInvokeReturns(i)
    \/ \E i \in CallIds : CallInvokeRaises(i)
    \/ \E i \in CallIds : CallProcessEvent(i)
    \/ \E i \in CallIds : CallReturn(i)

SpecConc == InitConc /\ [][NextConc]_allvars

-----------------------------------------------------------------------------
(* docs_uploader.py: lambda_handler, clone_repository and sync_to_s3.      *)
(* A repository 'owner/name' is the sequence of its '/'-separated parts.   *)
(* The state keeps which directories exist under the temp root; the files  *)
(* inside a cloned repository are not part of it.  git clone and aws s3    *)
(* sync are subprocesses that either succeed or exit non-zero              *)
(* (CalledProcessError).                                                   *)

Repositories ==
    { <<"opensearch-project", "opensearch-build">>,
      <<"opensearch-project", "documentation-website">>,
      <<"my-fork", "documentation-website">> }

RECURSIVE SeqsUpTo(_, _)
SeqsUpTo(S, n) ==
    IF n = 0 THEN {<<>>}
    ELSE LET shorter == SeqsUpTo(S, n - 1)
         IN  shorter \cup {Append(l, x) : l \in shorter, x \in S}

LambdaEvents ==
    {[source |-> "aws.events"]}
        \cup {[repositories |-> l] : l \in SeqsUpTo(Repositories, MaxRepos)}

BucketNames == {None, "", "oscar-kb-docs"}

TempRoot == "/tmp/tmpdir"

InitialBucket == {"stale-docs"}

(* repo.split('/')[-1] *)
repo_name(repo) == repo[Len(repo)]

(* the top-level names aws s3 sync --delete leaves in the bucket *)
Mirrored(fs, root) == {path[2] : path \in {q \in fs : Len(q) = 2 /\ q[1] = root}}

(* clone_repository, lines 100-102: log and re-raise *)
clone_repository_except_swallowed(e) == NoError

clone_repository_except(e) == e

(* sync_to_s3, lines 153-155: log and re-raise *)
sync_to_s3_except(e) == e

(* lambda_handler, lines 71-73 *)
lambda_handler_except(e) ==
    [statusCode |-> 500, message |-> "Error: " \o e.type]

(* lambda_handler, line 51: not repos or not bucket *)
MissingInput_repositories_only(repos, bucket) == Len(repos) = 0

MissingInput(repos, bucket) == Len(repos) = 0 \/ ~TruthyStr(bucket)

(* lambda_handler, lines 74-76 *)
Finally_skipped(dir, fs) == fs

Finally(dir, fs) ==
    IF dir # None /\ <<dir>> \in fs
    THEN {path \in fs : path[1] # dir}
    ELSE fs

InitDocs ==
    /\ CleanupIdle
    /\ StacksIdle
    /\ InvokeIdle
    /\ ConcIdle
    /\ handler_pc = "start"
    /\ lambda_event \in LambdaEvents
    /\ environ \in BucketNames
    /\ temp_dir = None
    /\ filesystem = {}
    /\ clone_log = <<>>
    /\ sync_log = <<>>
    /\ bucket_objects = InitialBucket
    /\ handler_return = EmptyDict

(* lines 48-52, 74-76 *)
HandlerRejects ==
    /\ handler_pc = "start"
    /\ LET repos == Get(lambda_event, "repositories", <<>>) IN
       MissingInput(repos, environ)
    /\ handler_return' =
          [statusCode |-> 400, message |-> "Missing repositories or bucket"]
    /\ filesystem' = Finally(temp_dir, filesystem)
    /\ handler_pc' = "returned"
    /\ UNCHANGED <<lambda_event, environ, temp_dir, clone_log, sync_log,
                   bucket_objects>>
    /\ UNCHANGED <<vars, convars, stackvars, cleanvars>>

(* lines 48-57 *)
HandlerCreatesTempDir ==
    /\ handler_pc = "start"
    /\ LET repos == Get(lambda_event, "repositories", <<>>) IN
       ~MissingInput(repos, environ)
    /\ temp_dir' = TempRoot
    /\ filesystem' = filesystem \cup {<<TempRoot>>}
    /\ handler_pc' = "cloning"
    /\ UNCHANGED <<lambda_event, environ, clone_log, sync_log, bucket_objects,
                   handler_return>>
    /\ UNCHANGED <<vars, convars, stackvars, cleanvars>>

(* lines 59-60, 82-98: git clone of the next repository succeeds and the   *)
(* clone is cleaned                                                        *)
CloneSucceeds ==
    /\ handler_pc = "cloning"
    /\ Len(clone_log) < Len(lambda_event.repositories)
    /\ LET repo == lambda_event.repositories[Len(clone_log) + 1] IN
       /\ clone_log' = Append(clone_log, [repo |-> repo, ok |-> TRUE])
       /\ filesystem' = filesystem \cup {<<temp_dir, repo_name(repo)>>}
    /\ UNCHANGED <<handler_pc, lambda_event, environ, temp_dir, sync_log,
                   bucket_objects, handler_return>>
    /\ UNCHANGED <<vars, convars, stackvars, cleanvars>>

(* lines 59-60, 88-93, 100-102, 71-76: git clone exits non-zero *)
CloneFails ==
    /\ handler_pc = "cloning"
    /\ Len(clone_log) < Len(lambda_event.repositories)
    /\ LET repo == lambda_event.repositories[Len(clone_log) + 1]
           exc == clone_repository_except([type |-> "CalledProcessError"])
       IN  /\ clone_log' = Append(clone_log, [repo |-> repo, ok |-> FALSE])
           /\ IF exc = NoError
              THEN UNCHANGED <<handler_pc, filesystem, handler_return>>
              ELSE /\ handler_return' = lambda_handler_except(exc)
                   /\ filesystem' = Finally(temp_dir, filesystem)
                   /\ handler_pc' = "returned"
    /\ UNCHANGED <<lambda_event, environ, temp_dir, sync_log, bucket_objects>>
    /\ UNCHANGED <<vars, convars, stackvars, cleanvars>>

(* lines 63-69, 134-151, 74-76: every repository was cloned; aws s3 sync   *)
(* --delete succeeds                                                       *)
SyncSucceeds ==
    /\ handler_pc = "cloning"
    /\ Len(clone_log) = Len(lambda_event.repositories)
    /\ sync_log' = Append(sync_log, [bucket |-> environ, ok |-> TRUE])
    /\ bucket_objects' = Mirrored(filesystem, temp_dir)
    /\ handler_return' =
          [statusCode |-> 200,
           message |-> "Successfully synced "
                         \o ToString(Len(lambda_event.repositories))
                         \o " repositories",
           sync_output |-> "upload"]
    /\ filesystem' = Finally(temp_dir, filesystem)
    /\ handler_pc' = "returned"
    /\ UNCHANGED <<lambda_event, environ, temp_dir, clone_log>>
    /\ UNCHANGED <<vars, convars, stackvars, cleanvars>>

(* lines 63, 143-148, 153-155, 71-76: aws s3 sync exits non-zero, having   *)
(* changed the bucket or not                                               *)
SyncFails ==
    /\ handler_pc = "cloning"
    /\ Len(clone_log) = Len(lambda_event.repositories)
    /\ sync_log' = Append(sync_log, [bucket |-> environ, ok |-> FALSE])
    /\ bucket_objects' \in
          {bucket_objects, bucket_objects \cup Mirrored(filesystem, temp_dir)}
    /\ handler_return' =
          lambda_handler_except(sync_to_s3_except([type |-> "CalledProcessError"]))
    /\ filesystem' = Finally(temp_dir, filesystem)
    /\ handler_pc' = "returned"
    /\ UNCHANGED <<lambda_event, environ, temp_dir, clone_log>>
    /\ UNCHANGED <<vars, convars, stackvars, cleanvars>>

NextDocs ==
    \/ HandlerRejects
    \/ HandlerCreatesTempDir
    \/ CloneSucceeds
    \/ CloneFails
    \/ SyncSucceeds
    \/ SyncFails

SpecDocs == InitDocs /\ [][NextDocs]_allvars

-----------------------------------------------------------------------------
(* The CDK app: main() of app.py constructs OscarLambdaStack,              *)
(* OscarApiGatewayStack and OscarAgentsStack in this order; the other      *)
(* stacks it constructs are not read here.  A stack object is the record   *)
(* of its attributes.  A class is the function from the names of the       *)
(* accessors it defines to the name prefix each returns; calling a name    *)
(* the class does not define raises AttributeError, and subscripting a     *)
(* dict with a key it does not hold raises KeyError.  attr_agent_id and    *)
(* attr_agent_alias_id are the ids the deployment gives the resource; the  *)
(* stack reads the alias id of the two supervisors only.                   *)

SUPERVISOR_AGENT_LAMBDA_FUNCTION_NAME == "oscar-supervisor-agent"
COMMUNICATION_HANDLER_LAMBDA_FUNCTION_NAME == "oscar-communication-handler"
JENKINS_AGENT_LAMBDA_FUNCTION_NAME == "oscar-jenkins-operations"
METRICS_AGENT_LAMBDA_FUNCTION_NAME == "oscar-metrics-agent"

(* lambda_stack.py, lines 49-67: the classmethods of OscarLambdaStack *)
OscarLambdaStack ==
    [get_supervisor_agent_function_name |->
         SUPERVISOR_AGENT_LAMBDA_FUNCTION_NAME,
     get_communication_handler_lambda_function_name |->
         COMMUNICATION_HANDLER_LAMBDA_FUNCTION_NAME,
     get_jenkins_agent_lambda_function_name |->
         JENKINS_AGENT_LAMBDA_FUNCTION_NAME,
     get_metrics_agent_lambda_function_name |->
         METRICS_AGENT_LAMBDA_FUNCTION_NAME]

(* The lambda_stack parameter of OscarApiGatewayStack and OscarAgentsStack *)
(* is typed Any.  Besides OscarLambdaStack it may be a subclass that also  *)
(* offers the accessors under the names the two stacks call.               *)
CompatibleLambdaStack ==
    OscarLambdaStack @@
    [get_main_agent_function_name |-> SUPERVISOR_AGENT_LAMBDA_FUNCTION_NAME,
     get_jenkins_operations_function_name |->
         JENKINS_AGENT_LAMBDA_FUNCTION_NAME,
     get_metrics_agent_function_name |-> METRICS_AGENT_LAMBDA_FUNCTION_NAME]

LambdaStackClasses == {OscarLambdaStack, CompatibleLambdaStack}

(* app.py, line 56 *)
Environments == {"dev", "prod"}

AgentIds == {"AGENT" \o ToString(i) : i \in 1..MaxAgentIds}

AliasIds == {"ALIAS1", "ALIAS2"}

AttributeError == [type |-> "AttributeError"]

KeyError == [type |-> "KeyError"]

(* cls.name(env): f"{PREFIX}-{env}" *)
CallAccessor(cls, name, env) ==
    IF name \in DOMAIN cls
    THEN [raised |-> NoError, value |-> cls[name] \o "-" \o env]
    ELSE [raised |-> AttributeError, value |-> None]

(* stack.lambda_functions[stack.name(env)] *)
LookupFunction(stack, name, env) ==
    LET key == CallAccessor(stack.class, name, env) IN
    IF key.raised # NoError THEN key
    ELSE IF key.value \notin DOMAIN stack.lambda_functions
         THEN [raised |-> KeyError, value |-> None]
         ELSE [raised |-> NoError, value |-> stack.lambda_functions[key.value]]

(* bedrock_agent_details.py, lines 30-53 *)
get_ssm_param_paths_shared_supervisor(env) ==
    LET path(name) == "/oscar/" \o env \o "/bedrock/" \o name IN
    [jenkins_agent_id |-> path("jenkins-agent-id"),
     jenkins_agent_alias |-> path("jenkins-agent-alias"),
     metrics_build_agent_id |-> path("metrics-build-agent-id"),
     metrics_build_agent_alias |-> path("metrics-build-agent-alias"),
     metrics_test_agent_id |-> path("metrics-test-agent-id"),
     metrics_test_agent_alias |-> path("metrics-test-agent-alias"),
     metrics_release_agent_id |-> path("metrics-release-agent-id"),
     metrics_release_agent_alias |-> path("metrics-release-agent-alias"),
     supervisor_agent_id |-> path("supervisor-agent-id"),
     supervisor_agent_alias |-> path("supervisor-agent-alias"),
     limited_supervisor_agent_id |-> path("supervisor-agent-id"),
     limited_supervisor_agent_alias |-> path("supervisor-agent-alias")]

get_ssm_param_paths(env) ==
    LET path(name) == "/oscar/" \o env \o "/bedrock/" \o name IN
    [jenkins_agent_id |-> path("jenkins-agent-id"),
     jenkins_agent_alias |-> path("jenkins-agent-alias"),
     metrics_build_agent_id |-> path("metrics-build-agent-id"),
     metrics_build_agent_alias |-> path("metrics-build-agent-alias"),
     metrics_test_agent_id |-> path("metrics-test-agent-id"),
     metrics_test_agent_alias |-> path("metrics-test-agent-alias"),
     metrics_release_agent_id |-> path("metrics-release-agent-id"),
     metrics_release_agent_alias |-> path("metrics-release-agent-alias"),
     supervisor_agent_id |-> path("supervisor-agent-id"),
     supervisor_agent_alias |-> path("supervisor-agent-alias"),
     limited_supervisor_agent_id |-> path("limited-supervisor-agent-id"),
     limited_supervisor_agent_alias |-> path("limited-supervisor-agent-alias")]

(* lambda_stack.py, lines 275-287: the entries that name parameter paths *)
main_agent_environment_variables(env) ==
    LET params == get_ssm_param_paths(env) IN
    [OSCAR_PRIVILEGED_BEDROCK_AGENT_ID_PARAM_PATH |->
         params.supervisor_agent_id,
     OSCAR_PRIVILEGED_BEDROCK_AGENT_ALIAS_PARAM_PATH |->
         params.supervisor_agent_alias,
     OSCAR_LIMITED_BEDROCK_AGENT_ID_PARAM_PATH |->
         params.limited_supervisor_agent_id,
     OSCAR_LIMITED_BEDROCK_AGENT_ALIAS_PARAM_PATH |->
         params.limited_supervisor_agent_alias]

(* lambda_stack.py, lines 101-107: the four functions, each stored under   *)
(* the name its accessor returns                                           *)
CreateLambdaFunctions(env) ==
    LET fn(accessor, environment_variables) ==
            LET function_name == CallAccessor(OscarLambdaStack, accessor, env).value
            IN  function_name :> [function_name |-> function_name,
                                  environment |-> environment_variables]
    IN  fn("get_supervisor_agent_function_name",
           main_agent_environment_variables(env))
        @@ fn("get_communication_handler_lambda_function_name", EmptyDict)
        @@ fn("get_jenkins_agent_lambda_function_name", EmptyDict)
        @@ fn("get_metrics_agent_lambda_function_name", EmptyDict)

(* the function names of each specialist's action group *)
JenkinsFunctions == {"get_job_info", "list_jobs", "trigger_job"}

MetricsBuildFunctions == {"get_build_metrics", "resolve_components_from_builds"}

MetricsTestFunctions == {"get_integration_test_metrics", "get_rc_build_mapping"}

MetricsReleaseFunctions == {"get_release_metrics"}

(* alias.attr_agent_alias_arn: the ARN of the one alias, LIVE, the stack   *)
(* creates for the agent                                                   *)
AliasArn(agent) == "agent-alias/" \o agent.agent_id \o "/LIVE"

(* bedrock.CfnAgent.AgentCollaboratorProperty(...) *)
CollaboratorSpecs(agent, name) ==
    [alias_arn |-> AliasArn(agent), collaborator_name |-> name]

(* bedrock_agents_stack.py, lines 88-98: the collaborator lists __init__   *)
(* hands to the two supervisors                                            *)
SupervisorCollaborators(jenkins, test, build, release) ==
    <<jenkins, test, build, release>>

LimitedSupervisorCollaborators_with_jenkins(jenkins, test, build, release) ==
    <<jenkins, test, build, release>>

LimitedSupervisorCollaborators(jenkins, test, build, release) ==
    <<test, build, release>>

UsedAgentIds == {cfn_agents[k].agent_id : k \in DOMAIN cfn_agents}

InitStacks ==
    /\ CleanupIdle
    /\ InvokeIdle
    /\ ConcIdle
    /\ DocsIdle
    /\ app_pc = "start"
    /\ environment \in Environments
    /\ \E cls \in LambdaStackClasses :
          lambda_stack = [class |-> cls, lambda_functions |-> EmptyDict]
    /\ api_gateway_stack = EmptyDict
    /\ cfn_agents = EmptyDict
    /\ ssm_parameters = {}
    /\ policy_statements = NotCalled
    /\ app_error = NoError

(* app.py, lines 112-120; lambda_stack.py, lines 91-110 *)
ConstructLambdaStack ==
    /\ app_pc = "start"
    /\ lambda_stack' =
          [lambda_stack EXCEPT !.lambda_functions = CreateLambdaFunctions(environment)]
    /\ app_pc' = "lambda_stack"
    /\ UNCHANGED <<environment, api_gateway_stack, cfn_agents, ssm_parameters,
                   policy_statements, app_error>>
    /\ UNCHANGED <<vars, convars, docvars, cleanvars>>

(* app.py, lines 128-135; api_gateway_stack.py, lines 55-60 *)
ConstructApiGatewayStack ==
    /\ app_pc = "lambda_stack"
    /\ LET function == LookupFunction(lambda_stack,
                                      "get_main_agent_function_name", environment)
       IN  IF function.raised # NoError
           THEN /\ app_error' = function.raised
                /\ app_pc' = "raised"
                /\ UNCHANGED api_gateway_stack
           ELSE /\ api_gateway_stack' = [lambda_function |-> function.value]
                /\ app_pc' = "api_gateway_stack"
                /\ UNCHANGED app_error
    /\ UNCHANGED <<environment, lambda_stack, cfn_agents, ssm_parameters,
                   policy_statements>>
    /\ UNCHANGED <<vars, convars, docvars, cleanvars>>

(* One specialist agent with its action group and its LIVE alias: the      *)
(* executor lookup, bedrock.CfnAgent and bedrock.CfnAgentAlias             *)
CreateSpecialistAgent(at, next, id, accessor, functions, agent_name) ==
    /\ app_pc = at
    /\ LET function == LookupFunction(lambda_stack, accessor, environment) IN
       IF function.raised # NoError
       THEN /\ app_error' = function.raised
            /\ app_pc' = "raised"
            /\ UNCHANGED cfn_agents
       ELSE /\ \E agent_id \in AgentIds \ UsedAgentIds :
                  cfn_agents' = cfn_agents @@
                      (id :> [agent_name |-> agent_name \o "-" \o environment,
                              action_group_lambda |-> function.value.function_name,
                              functions |-> functions,
                              agent_collaborators |-> <<>>,
                              agent_id |-> agent_id])
            /\ app_pc' = next
            /\ UNCHANGED app_error
    /\ UNCHANGED <<environment, lambda_stack, api_gateway_stack, ssm_parameters,
                   policy_statements>>
    /\ UNCHANGED <<vars, convars, docvars, cleanvars>>

(* bedrock_agents_stack.py, lines 100-299 *)
_create_jenkins_agent ==
    CreateSpecialistAgent("api_gateway_stack", "jenkins_agent", "OscarJenkinsAgent",
                          "get_jenkins_operations_function_name",
                          JenkinsFunctions, "oscar-jenkins-agent")

(* bedrock_agents_stack.py, lines 301-437 *)
_create_metrics_build_agent ==
    CreateSpecialistAgent("jenkins_agent", "metrics_build_agent",
                          "OscarMetricsBuildAgent",
                          "get_metrics_agent_function_name",
                          MetricsBuildFunctions, "oscar-metrics-build-agent")

(* bedrock_agents_stack.py, lines 439-612 *)
_create_metrics_test_agent ==
    CreateSpecialistAgent("metrics_build_agent", "metrics_test_agent",
                          "OscarTestMetricsAgent",
                          "get_metrics_agent_function_name",
                          MetricsTestFunctions, "oscar-test-metrics-agent")

(* bedrock_agents_stack.py, lines 614-731 *)
_create_metrics_release_agent ==
    CreateSpecialistAgent("metrics_test_agent", "metrics_release_agent",
                          "OscarReleaseMetricsAgent",
                          "get_metrics_agent_function_name",
                          MetricsReleaseFunctions, "oscar-release-metrics-agent")

(* A supervisor with its collaborators and its LIVE alias, and the two     *)
(* ssm.StringParameter resources that store its id and its alias id        *)
CreateSupervisor(at, next, id, agent_name, collaborators, id_path, alias_path) ==
    /\ app_pc = at
    /\ \E agent_id \in AgentIds \ UsedAgentIds, alias_id \in AliasIds :
          /\ cfn_agents' = cfn_agents @@
                (id :> [agent_name |-> agent_name \o "-" \o environment,
                        action_group_lambda |-> None,
                        functions |-> {},
                        agent_collaborators |-> collaborators,
                        agent_id |-> agent_id,
                        agent_alias_id |-> alias_id])
          /\ ssm_parameters' = ssm_parameters \cup
                {[parameter_name |-> id_path, string_value |-> agent_id],
                 [parameter_name |-> alias_path, string_value |-> alias_id]}
    /\ app_pc' = next
    /\ UNCHANGED <<environment, lambda_stack, api_gateway_stack,
                   policy_statements, app_error>>
    /\ UNCHANGED <<vars, convars, docvars, cleanvars>>

(* bedrock_agents_stack.py, lines 88-93 and 733-985 *)
_create_supervisor_agent ==
    LET params == get_ssm_param_paths(environment) IN
    CreateSupervisor(
        "metrics_release_agent", "supervisor_agent", "OscarPrivilegedAgent",
        "oscar-privileged-agent",
        SupervisorCollaborators(
            CollaboratorSpecs(cfn_agents["OscarJenkinsAgent"], "Jenkins-Specialist"),
            CollaboratorSpecs(cfn_agents["OscarTestMetricsAgent"],
                              "Test-Metrics-Specialist"),
            CollaboratorSpecs(cfn_agents["OscarMetricsBuildAgent"],
                              "Build-Metrics-Specialist"),
            CollaboratorSpecs(cfn_agents["OscarReleaseMetricsAgent"],
                              "Release-Readiness-Metrics-Specialist")),
        params.supervisor_agent_id, params.supervisor_agent_alias)

(* bedrock_agents_stack.py, lines 94-98 and 988-1081 *)
_create_limited_supervisor_agent ==
    LET params == get_ssm_param_paths(environment) IN
    CreateSupervisor(
        "supervisor_agent", "agents_stack", "OscarLimitedAgent",
        "oscar-limited-agent",
        LimitedSupervisorCollaborators(
            CollaboratorSpecs(cfn_agents["OscarJenkinsAgent"], "Jenkins-Specialist"),
            CollaboratorSpecs(cfn_agents["OscarTestMetricsAgent"],
                              "Test-Metrics-Specialist"),
            CollaboratorSpecs(cfn_agents["OscarMetricsBuildAgent"],
                              "Build-Metrics-Specialist"),
            CollaboratorSpecs(cfn_agents["OscarReleaseMetricsAgent"],
                              "Release-Readiness-Metrics-Specialist")),
        params.limited_supervisor_agent_id, params.limited_supervisor_agent_alias)

(* policy_definitions.py, lines 253-296: the resource of the last          *)
(* statement is built with OscarLambdaStack.get_main_agent_function_name   *)
get_communication_handler_policies ==
    /\ app_pc # "idle"
    /\ policy_statements = NotCalled
    /\ LET name == CallAccessor(OscarLambdaStack,
                                "get_main_agent_function_name", environment)
       IN  policy_statements' =
              IF name.raised # NoError
              THEN [raised |-> name.raised]
              ELSE [raised |-> NoError,
                    InvokeOscarLambdas |-> "function:" \o name.value]
    /\ UNCHANGED <<app_pc, environment, lambda_stack, api_gateway_stack,
                   cfn_agents, ssm_parameters, app_error>>
    /\ UNCHANGED <<vars, convars, docvars, cleanvars>>

NextStacks ==
    \/ ConstructLambdaStack
    \/ ConstructApiGatewayStack
    \/ _create_jenkins_agent
    \/ _create_metrics_build_agent
    \/ _create_metrics_test_agent
    \/ _create_metrics_release_agent
    \/ _create_supervisor_agent
    \/ _create_limited_supervisor_agent
    \/ get_communication_handler_policies

SpecStacks == InitStacks /\ [][NextStacks]_allvars

-----------------------------------------------------------------------------
(* docs_uploader.py: cleanup_non_markdown_files on the working tree that   *)
(* git clone left in repo_path.  A directory is its path below repo_path,  *)
(* a sequence of directory names (<<>> is repo_path itself); a file is the *)
(* directory it lies in and its name.  File names are sequences of         *)
(* characters, since the code lower-cases them and tests their ends.  The  *)
(* tree holds regular files and directories; symbolic links and submodules *)
(* are not part of it.                                                     *)

UpperCase ==
    <<"A", "B", "C", "D", "E", "F", "G", "H", "I", "J", "K", "L", "M",
      "N", "O", "P", "Q", "R", "S", "T", "U", "V", "W", "X", "Y", "Z">>

LowerCase ==
    <<"a", "b", "c", "d", "e", "f", "g", "h", "i", "j", "k", "l", "m",
      "n", "o", "p", "q", "r", "s", "t", "u", "v", "w", "x", "y", "z">>

(* str.lower() *)
Lower(s) ==
    [i \in 1..Len(s) |->
        IF \E k \in 1..Len(UpperCase) : UpperCase[k] = s[i]
        THEN LowerCase[CHOOSE k \in 1..Len(UpperCase) : UpperCase[k] = s[i]]
        ELSE s[i]]

(* str.endswith(suffix) *)
EndsWith(s, suffix) ==
    /\ Len(suffix) <= Len(s)
    /\ SubSeq(s, Len(s) - Len(suffix) + 1, Len(s)) = suffix

(* str.startswith(prefix) *)
StartsWith(s, prefix) ==
    /\ Len(prefix) <= Len(s)
    /\ SubSeq(s, 1, Len(prefix)) = prefix

DotMd == <<".", "m", "d">>

Admins == <<"a", "d", "m", "i", "n", "s">>

(* line 23; no function of the module reads it *)
MAX_DEPTH == 3

(* line 107 *)
excluded_dirs == {".git", "node_modules", "build", "dist", "target", ".github"}

(* lines 108-109 *)
excluded_files ==
    { <<"m", "a", "i", "n", "t", "a", "i", "n", "e", "r", "s">> \o DotMd,
      <<"c", "o", "d", "e", "_", "o", "f", "_", "c", "o", "n", "d", "u", "c", "t">>
          \o DotMd,
      <<"c", "o", "n", "t", "r", "i", "b", "u", "t", "i", "n", "g">> \o DotMd,
      <<"l", "i", "c", "e", "n", "s", "e">> \o DotMd,
      <<"n", "o", "t", "i", "c", "e">> \o DotMd,
      <<".", "g", "i", "t", "i", "g", "n", "o", "r", "e">> }

(* line 123: the test that removes a file *)
IsRemoved_case_sensitive(file) ==
    \/ ~EndsWith(file, DotMd)
    \/ file \in excluded_files
    \/ StartsWith(file, Admins)

IsRemoved(file) ==
    \/ ~EndsWith(file, DotMd)
    \/ Lower(file) \in excluded_files
    \/ StartsWith(Lower(file), Admins)

File(dir, name) == [dir |-> dir, name |-> name]

(* The files a clone may hold besides git's own *)
TrackedFiles ==
    { File(<<>>, <<"R", "E", "A", "D", "M", "E">> \o DotMd),
      File(<<>>, <<"M", "A", "I", "N", "T", "A", "I", "N", "E", "R", "S">> \o DotMd),
      File(<<>>, <<"A", "D", "M", "I", "N", "S">> \o DotMd),
      File(<<>>, <<"s", "e", "t", "u", "p", ".", "p", "y">>),
      File(<<>>, <<"N", "O", "T", "E", "S", ".", "M", "D">>),
      File(<<"docs">>, <<"g", "u", "i", "d", "e">> \o DotMd),
      File(<<"docs", "build">>, <<"s", "t", "e", "p", "s">> \o DotMd),
      File(<<"build">>, <<"i", "n", "d", "e", "x">> \o DotMd),
      File(<<".github">>, <<"p", "u", "l", "l">> \o DotMd),
      File(<<"src">>, <<"m", "a", "i", "n", ".", "p", "y">>),
      File(<<"src", "pkg">>, <<"L", "i", "c", "e", "n", "s", "e">> \o DotMd),
      File(<<"a", "b", "c">>, <<"n", "e", "a", "r">> \o DotMd),
      File(<<"a", "b", "c", "d">>, <<"d", "e", "e", "p">> \o DotMd) }

(* what git keeps of its own in every clone *)
GitFiles == {File(<<".git">>, <<"H", "E", "A", "D">>)}

GitDirs == {<<".git">>, <<".git", "refs">>}

IsPrefix(p, q) == Len(p) <= Len(q) /\ SubSeq(q, 1, Len(p)) = p

(* the directories the files of a working tree lie in *)
DirsOf(files) ==
    UNION {{SubSeq(f.dir, 1, n) : n \in 0..Len(f.dir)} : f \in files}

ClonedTrees ==
    {[dirs |-> DirsOf(S) \cup GitDirs, files |-> S \cup GitFiles] :
        S \in {T \in SUBSET TrackedFiles : Cardinality(T) <= MaxFiles}}

(* os.listdir(path): the names of the entries of a directory *)
SubDirs(path, dirs) ==
    {d \in dirs : Len(d) = Len(path) + 1 /\ IsPrefix(path, d)}

FilesIn(path, files) == {f \in files : f.dir = path}

(* shutil.rmtree(path) *)
rmtree(path, tree) ==
    [dirs |-> {d \in tree.dirs : ~IsPrefix(path, d)},
     files |-> {f \in tree.files : ~IsPrefix(path, f.dir)}]

InitCleanup ==
    /\ InvokeIdle
    /\ ConcIdle
    /\ DocsIdle
    /\ StacksIdle
    /\ cleanup_pc = "first pass"
    /\ cloned \in ClonedTrees
    /\ repo_tree = cloned
    /\ to_walk = {}

(* lines 112-115: the first pass removes the excluded directories that are *)
(* entries of repo_path; then os.walk lists the tree, line 118             *)
RemoveExcludedDirectories ==
    /\ cleanup_pc = "first pass"
    /\ LET items == {d \in SubDirs(<<>>, repo_tree.dirs) : d[1] \in excluded_dirs}
           kept == [dirs |-> {d \in repo_tree.dirs :
                                 \A item \in items : d \in rmtree(item, repo_tree).dirs},
                    files |-> {f \in repo_tree.files :
                                 \A item \in items : f \in rmtree(item, repo_tree).files}]
       IN  /\ repo_tree' = kept
           /\ to_walk' = kept.dirs
    /\ cleanup_pc' = "second pass"
    /\ UNCHANGED cloned
    /\ UNCHANGED <<vars, convars, docvars, stackvars>>

(* lines 118-128: one iteration of the os.walk loop, bottom-up: root is a  *)
(* directory all of whose subdirectories were visited                      *)
WalkDirectory ==
    /\ cleanup_pc = "second pass"
    /\ \E root \in to_walk :
          /\ \A d \in to_walk : IsPrefix(root, d) => d = root
          /\ LET files == repo_tree.files \
                            {f \in FilesIn(root, repo_tree.files) : IsRemoved(f.name)}
                 empty == /\ FilesIn(root, files) = {}
                          /\ SubDirs(root, repo_tree.dirs) = {}
             IN  repo_tree' =
                    [dirs |-> IF root # <<>> /\ empty
                              THEN repo_tree.dirs \ {root}
                              ELSE repo_tree.dirs,
                     files |-> files]
          /\ to_walk' = to_walk \ {root}
          /\ cleanup_pc' = IF to_walk' = {} THEN "done" ELSE "second pass"
    /\ UNCHANGED cloned
    /\ UNCHANGED <<vars, convars, docvars, stackvars>>

NextCleanup ==
    \/ RemoveExcludedDirectories
    \/ WalkDirectory

SpecCleanup == InitCleanup /\ [][NextCleanup]_allvars

-----------------------------------------------------------------------------
(* What a stream of events contains, read off the events themselves *)

IsChunkWithText(e) ==
    /\ DOMAIN e = {"chunk"}
    /\ "bytes" \in DOMAIN e.chunk
    /\ Len(e.chunk.bytes) > 0
    /\ Decodable(e.chunk.bytes)

IsUndecodableChunk(e) ==
    /\ "chunk" \in DOMAIN e
    /\ "bytes" \in DOMAIN e.chunk
    /\ ~Decodable(e.chunk.bytes)

CarriesSessionId(e) ==
    /\ "chunk" \in DOMAIN e
    /\ "sessionId" \in DOMAIN e.chunk

HasRawResponse(e) ==
    /\ "trace" \in DOMAIN e
    /\ "trace" \in DOMAIN e.trace
    /\ "orchestrationTrace" \in DOMAIN e.trace.trace
    /\ "modelInvocationOutput" \in DOMAIN e.trace.trace.orchestrationTrace
    /\ "rawResponse" \in
          DOMAIN e.trace.trace.orchestrationTrace.modelInvocationOutput

RawContentOf(e) ==
    Get(e.trace.trace.orchestrationTrace.modelInvocationOutput.rawResponse,
        "content", "")

IsUnparseableTrace(e) ==
    /\ DOMAIN e = {"trace"}
    /\ HasRawResponse(e)
    /\ ~json_loads(RawContentOf(e)).ok

IsSendToUser(item) ==
    /\ "toolUse" \in DOMAIN item
    /\ item.toolUse.name = SendMessage
    /\ item.toolUse.input.recipient = "User"
    /\ item.toolUse.input.content # EmptyText

(* contents of the valid sendMessage-to-User invocations of one event *)
UserMessagesOf(e) ==
    IF HasRawResponse(e) /\ json_loads(RawContentOf(e)).ok
       /\ json_loads(RawContentOf(e)).type = "dict"
    THEN LET items == SelectSeq(
                 json_loads(RawContentOf(e)).value.output.message.content,
                 IsSendToUser)
         IN  [i \in 1..Len(items) |-> items[i].toolUse.input.content]
    ELSE <<>>

RECURSIVE UserMessages(_)
UserMessages(events) ==
    IF events = <<>> THEN <<>>
    ELSE UserMessagesOf(Head(events)) \o UserMessages(Tail(events))

RECURSIVE ChunkTexts(_)
ChunkTexts(events) ==
    IF events = <<>> THEN <<>>
    ELSE (IF IsChunkWithText(Head(events))
          THEN Decode(Head(events).chunk.bytes) ELSE <<>>)
         \o ChunkTexts(Tail(events))

ChunkSessionIds(events) ==
    LET carrying == SelectSeq(events, CarriesSessionId)
    IN  [i \in 1..Len(carrying) |-> carrying[i].chunk.sessionId]

Last(s) == s[Len(s)]

-----------------------------------------------------------------------------
(* C1: for a stream of chunk events only, each with a non-empty payload,   *)
(* the returned response text is the concatenation of all decoded chunk    *)
(* texts in arrival order, stripped.                                       *)
C1_ChunkTextsConcatenated ==
    (/\ pc = "returned"
     /\ \A i \in 1..Len(all_events) : IsChunkWithText(all_events[i]))
    => result[1] = Strip(ChunkTexts(all_events))

(* C2 as stated: the returned response text equals the content of every    *)
(* valid sendMessage-to-User invocation that occurred in the stream.       *)
C2_EqualsAnyToolContent ==
    pc = "returned" =>
        \A i \in 1..Len(UserMessages(all_events)) :
            result[1] = UserMessages(all_events)[i]

(* C2 amended: when the stream held a valid sendMessage-to-User invocation *)
(* with non-empty content, the returned response text is the stripped      *)
(* content of the last such invocation, whatever chunks came before,       *)
(* between or after it.                                                    *)
C2_LastToolContentStripped ==
    (pc = "returned" /\ UserMessages(all_events) # <<>>)
    => result[1] = Strip(Last(UserMessages(all_events)))

C2_Witness ==
    /\ pc = "returned"
    /\ Len(all_events) = 3
    /\ IsChunkWithText(all_events[1])
    /\ UserMessagesOf(all_events[2]) = << <<"t">> >>
    /\ IsChunkWithText(all_events[3])
    /\ result[1] = <<"t">>

(* C3: the returned session id is the envelope's if present, else the one  *)
(* a chunk carried, else the one supplied in the call, else generated.     *)
C3_SessionIdPrecedence ==
    pc = "returned" =>
        result[2] =
            IF "sessionId" \in DOMAIN response THEN response.sessionId
            ELSE IF ChunkSessionIds(all_events) # <<>>
                 THEN Last(ChunkSessionIds(all_events))
            ELSE IF TruthyStr(session_id) THEN session_id
            ELSE SessionFor(now)

(* C4: the request carries the privileged id and alias when privilege is   *)
(* true and the limited id and alias otherwise, inputText is the query and *)
(* enableTrace is true.                                                    *)
C4_RequestSelectsPair ==
    DOMAIN request # {} =>
        /\ <<request.agentId, request.agentAliasId>> =
              IF privilege
              THEN <<privileged_agent_id, privileged_agent_alias_id>>
              ELSE <<limited_agent_id, limited_agent_alias_id>>
        /\ request.inputText = query
        /\ request.enableTrace = TRUE

C4_Witness ==
    /\ pc = "requested"
    /\ privilege
    /\ query = "q2"
    /\ session_id = None
    /\ request.agentId = privileged_agent_id
    /\ request.agentAliasId = privileged_agent_alias_id

(* C5: when the remote call raises a ClientError, invoke_agent raises that *)
(* same error, code and message unchanged, and returns nothing.            *)
C5_ClientErrorPropagates ==
    service_error # NoError =>
        /\ pc = "raised"
        /\ error = service_error
        /\ result = NoResult

C5_Witness ==
    /\ pc = "raised"
    /\ service_error.type = "ClientError"
    /\ error.code = "ThrottlingException"
    /\ error.message = "Rate exceeded"
    /\ invoke_calls = 1

(* C6: an undecodable chunk makes the call raise wherever it occurs: it is *)
(* the last event processed and nothing is returned.                       *)
C6_UndecodableChunkFatal ==
    \A i \in 1..Len(all_events) :
        IsUndecodableChunk(all_events[i]) =>
            /\ pc = "raised"
            /\ error.type = "UnicodeDecodeError"
            /\ i = Len(all_events)
            /\ result = NoResult

C6_Witness ==
    /\ pc = "raised"
    /\ Len(all_events) = 2
    /\ UserMessagesOf(all_events[1]) # <<>>
    /\ TruthyText(response_text)
    /\ IsUndecodableChunk(all_events[2])
    /\ result = NoResult

(* C7: processing a trace event whose raw-response content does not parse  *)
(* (absent and empty content included) raises nothing, leaves the response *)
(* text and the captured session id as they were, and the loop goes on.    *)
C7_UnparseableTraceSkipped ==
    [][(/\ pc = "streaming"
        /\ Len(all_events') = Len(all_events) + 1
        /\ IsUnparseableTrace(Last(all_events')))
       => (/\ pc' = "streaming"
           /\ error' = NoError
           /\ response_text' = response_text
           /\ returned_session_id' = returned_session_id)]_vars

C7_Witness ==
    /\ pc = "returned"
    /\ Len(all_events) = 3
    /\ IsUnparseableTrace(all_events[1])
    /\ RawContentOf(all_events[1]) = RawEmpty
    /\ IsUnparseableTrace(all_events[2])
    /\ RawContentOf(all_events[2]) = RawBroken
    /\ IsChunkWithText(all_events[3])
    /\ result[1] = Decode(all_events[3].chunk.bytes)

GeneratedIds == {SessionFor(t) : t \in 0..MaxClock}

(* C8 as stated: a call that got no completion events returns the empty    *)
(* text and a generated session id.                                        *)
C8_EmptyStreamGeneratedId ==
    (pc = "returned" /\ all_events = <<>>)
    => /\ result[1] = EmptyText
       /\ result[2] \in GeneratedIds

(* C8 amended: a call that got no completion events returns the empty text *)
(* and the envelope's session id if the envelope has one, else the         *)
(* non-empty sessionId argument, else an id generated from the clock.      *)
C8_EmptyStreamResult ==
    (pc = "returned" /\ all_events = <<>>)
    => /\ result[1] = EmptyText
       /\ result[2] =
             IF "sessionId" \in DOMAIN response THEN response.sessionId
             ELSE IF TruthyStr(session_id) THEN session_id
             ELSE SessionFor(now)

C8_Witness ==
    /\ pc = "returned"
    /\ all_events = <<>>
    /\ "completion" \notin DOMAIN response
    /\ "sessionId" \notin DOMAIN response
    /\ session_id = None
    /\ request.sessionId = SessionFor(0)
    /\ now = 1
    /\ result = <<EmptyText, SessionFor(1)>>

(* C9: with a non-empty sessionId argument, no envelope session id and no  *)
(* chunk carrying one, the returned session id is the argument.            *)
C9_RequestSessionIdReturned ==
    (/\ pc = "returned"
     /\ TruthyStr(session_id)
     /\ "sessionId" \notin DOMAIN response
     /\ ChunkSessionIds(all_events) = <<>>)
    => result[2] = session_id

C9_Witness ==
    /\ pc = "returned"
    /\ session_id = "abc"
    /\ "sessionId" \notin DOMAIN response
    /\ Len(all_events) = 2
    /\ UserMessagesOf(all_events[1]) # <<>>
    /\ IsChunkWithText(all_events[2])
    /\ result[2] = "abc"

(* C10: every returned result has a session id that is a non-null,         *)
(* non-empty string.                                                       *)
C10_SessionIdPopulated ==
    pc = "returned" => (result[2] # None /\ result[2] # "")


-----------------------------------------------------------------------------
IsOtherEvent(e) == "trace" \notin DOMAIN e /\ "chunk" \notin DOMAIN e

IsTraceOnly(e) == DOMAIN e = {"trace"}

(* the step from one state of the loop to the next processed one event *)
EventProcessed ==
    /\ pc = "streaming"
    /\ Len(all_events') = Len(all_events) + 1

(* C11: an event that is neither a trace nor a chunk event raises nothing  *)
(* and leaves the response text and the captured session id unchanged; the *)
(* loop goes on.                                                           *)
C11_OtherEventIgnored ==
    [][(EventProcessed /\ IsOtherEvent(Last(all_events')))
       => (/\ pc' = "streaming"
           /\ error' = NoError
           /\ response_text' = response_text
           /\ returned_session_id' = returned_session_id)]_vars

C11_Witness ==
    /\ pc = "returned"
    /\ Len(all_events) = 3
    /\ CarriesSessionId(all_events[1])
    /\ IsOtherEvent(all_events[2])
    /\ UserMessagesOf(all_events[3]) = << <<"t">> >>
    /\ returned_session_id = "chk-1"
    /\ result[1] = <<"t">>

(* C15: once the running response text was set from a sendMessage          *)
(* invocation it is, at every later point, the content of some such        *)
(* invocation of the stream, and no chunk event changes it.                *)
C15_ToolTextKept ==
    [][EventProcessed
       => LET messages == UserMessages(all_events') IN
          /\ messages # <<>>
             => \E i \in 1..Len(messages) : response_text' = messages[i]
          /\ ("chunk" \in DOMAIN Last(all_events')
                 /\ UserMessages(all_events) # <<>>)
             => response_text' = response_text]_vars

C15_Witness ==
    /\ pc = "streaming"
    /\ Len(all_events) = 3
    /\ UserMessagesOf(all_events[1]) = << <<"t">>, <<"u", " ">> >>
    /\ IsChunkWithText(all_events[2])
    /\ IsChunkWithText(all_events[3])
    /\ response_text = <<"u", " ">>

(* C16: a trace event with a raw-response payload never makes the call     *)
(* raise, whatever the payload holds; the loop goes on.                    *)
C16_TraceNeverAborts ==
    [][(/\ EventProcessed
        /\ IsTraceOnly(Last(all_events'))
        /\ HasRawResponse(Last(all_events')))
       => (pc' = "streaming" /\ error' = NoError)]_vars

C18_ReturnsRequestSessionId ==
    (/\ pc = "returned"
     /\ session_id = None
     /\ "sessionId" \notin DOMAIN response
     /\ ChunkSessionIds(all_events) = <<>>)
    => result[2] = request.sessionId

-----------------------------------------------------------------------------
RECURSIVE FoldEvents(_, _, _)
FoldEvents(events, text, sid) ==
    IF events = <<>> THEN [text |-> text, sid |-> sid]
    ELSE LET r == LoopBody(Head(events), text, sid)
         IN  FoldEvents(Tail(events), r.text, r.sid)

RunAlone(c) ==
    LET f == FoldEvents(c.events, EmptyText, None)
    IN  <<Strip(f.text),
          ResolveSessionId(c.response, f.sid, c.session_id,
                           c.returned_at \div TicksPerSecond)>>

(* C13: under every interleaving, what a call returns is what it would     *)
(* return run alone on its own stream.                                     *)
C13_CallsIndependent ==
    \A i \in CallIds :
        calls[i].pc = "returned" => calls[i].result = RunAlone(calls[i])

C13_Witness ==
    /\ calls[1].pc = "returned"
    /\ calls[2].pc = "returned"
    /\ calls[1].events = <<TraceEvent([content |-> RawToolT]),
                           [chunk |-> [bytes |-> <<32, 98>>, sessionId |-> "chk-1"]]>>
    /\ calls[2].events = <<[chunk |-> [bytes |-> <<32, 98>>, sessionId |-> "chk-1"]]>>
    /\ calls[1].result[1] = <<"t">>
    /\ calls[2].result[1] = <<"b">>
    /\ calls[2].returned_at < calls[1].returned_at

(* C14: two requests built without a sessionId argument carry different    *)
(* session ids exactly when they are built in different whole seconds.     *)
C14_SecondGranularity ==
    \A i, j \in CallIds :
        (/\ i # j
         /\ calls[i].pc # "start" /\ calls[j].pc # "start"
         /\ calls[i].session_id = None /\ calls[j].session_id = None)
        => ((calls[i].request.sessionId # calls[j].request.sessionId)
            <=> (calls[i].built_at \div TicksPerSecond
                    # calls[j].built_at \div TicksPerSecond))

C14_Witness ==
    /\ calls[1].pc # "start"
    /\ calls[2].pc # "start"
    /\ calls[1].session_id = None
    /\ calls[2].session_id = None
    /\ calls[1].built_at = 0
    /\ calls[2].built_at = 1
    /\ calls[1].request.sessionId = calls[2].request.sessionId


-----------------------------------------------------------------------------
(* C20: the S3 sync runs only after every repository of the event was      *)
(* cloned; once a clone fails no later repository is cloned, the sync is   *)
(* never run, the bucket is as it was and the handler returns 500; it      *)
(* returns 200 only after all clones and the one sync succeeded.           *)
C20_SyncOnlyAfterAllClones ==
    LET repos == Get(lambda_event, "repositories", <<>>)
        AllCloned ==
            /\ Len(clone_log) = Len(repos)
            /\ \A k \in 1..Len(clone_log) :
                  clone_log[k].ok /\ clone_log[k].repo = repos[k]
    IN  /\ Len(sync_log) <= 1
        /\ sync_log # <<>> => AllCloned
        /\ \A k \in 1..Len(clone_log) :
              ~clone_log[k].ok =>
                  /\ k = Len(clone_log)
                  /\ sync_log = <<>>
                  /\ bucket_objects = InitialBucket
                  /\ handler_pc = "returned"
                  /\ handler_return.statusCode = 500
        /\ (handler_pc = "returned" /\ handler_return.statusCode = 200)
              => (AllCloned /\ sync_log = <<[bucket |-> environ, ok |-> TRUE]>>)

C20_Witness ==
    /\ handler_pc = "returned"
    /\ "repositories" \in DOMAIN lambda_event
    /\ Len(lambda_event.repositories) = 2
    /\ Len(clone_log) = 1
    /\ ~clone_log[1].ok
    /\ sync_log = <<>>
    /\ bucket_objects = InitialBucket
    /\ handler_return.statusCode = 500

-----------------------------------------------------------------------------
(* C21: every function-name accessor that the API Gateway stack, the       *)
(* agents stack and the policy definitions call on the Lambda stack is one *)
(* OscarLambdaStack defines and returns a key of lambda_functions, so with *)
(* an OscarLambdaStack no consumer lookup raises.                          *)
C21_ConsumerLookupsSucceed ==
    (app_pc # "idle" /\ lambda_stack.class = OscarLambdaStack)
        => /\ app_error = NoError
           /\ policy_statements.raised = NoError

-----------------------------------------------------------------------------
(* What the constructed stacks hold *)

(* the values stored under one parameter name *)
ParameterValues(path) ==
    {p.string_value : p \in {q \in ssm_parameters : q.parameter_name = path}}

(* the environment handed to the main Lambda function *)
MainLambdaEnvironment ==
    lambda_stack.lambda_functions[
        SUPERVISOR_AGENT_LAMBDA_FUNCTION_NAME \o "-" \o environment].environment

(* the agents a collaborator list of agent k names by alias ARN *)
CollaboratorsOf(k) ==
    LET specs == cfn_agents[k].agent_collaborators IN
    {c \in DOMAIN cfn_agents :
        \E i \in 1..Len(specs) : specs[i].alias_arn = AliasArn(cfn_agents[c])}

(* the agents reached from the set S over at most n collaborations *)
RECURSIVE ReachableFrom(_, _)
ReachableFrom(S, n) ==
    IF n = 0 THEN S
    ELSE ReachableFrom(S \cup UNION {CollaboratorsOf(k) : k \in S}, n - 1)

MetricsSpecialists ==
    {"OscarTestMetricsAgent", "OscarMetricsBuildAgent", "OscarReleaseMetricsAgent"}

-----------------------------------------------------------------------------
-----------------------------------------------------------------------------
-----------------------------------------------------------------------------
(* C24: after cleanup_non_markdown_files every file left under the         *)
(* repository directory has a name ending in '.md', its lower-cased name   *)
(* is none of maintainers.md, code_of_conduct.md, contributing.md,         *)
(* license.md, notice.md and does not start with 'admins'; and no          *)
(* directory other than the repository root is left empty.                 *)
C24_OnlyMarkdownRemains ==
    cleanup_pc = "done" =>
        /\ \A f \in repo_tree.files :
              /\ EndsWith(f.name, <<".", "m", "d">>)
              /\ Lower(f.name) \notin
                    { <<"m", "a", "i", "n", "t", "a", "i", "n", "e", "r", "s",
                        ".", "m", "d">>,
                      <<"c", "o", "d", "e", "_", "o", "f", "_", "c", "o", "n",
                        "d", "u", "c", "t", ".", "m", "d">>,
                      <<"c", "o", "n", "t", "r", "i", "b", "u", "t", "i", "n",
                        "g", ".", "m", "d">>,
                      <<"l", "i", "c", "e", "n", "s", "e", ".", "m", "d">>,
                      <<"n", "o", "t", "i", "c", "e", ".", "m", "d">> }
              /\ ~StartsWith(Lower(f.name), <<"a", "d", "m", "i", "n", "s">>)
        /\ \A d \in repo_tree.dirs \ {<<>>} :
              FilesIn(d, repo_tree.files) # {} \/ SubDirs(d, repo_tree.dirs) # {}

C24_Witness ==
    /\ cleanup_pc = "done"
    /\ cloned.files = GitFiles \cup
          { File(<<>>, <<"R", "E", "A", "D", "M", "E", ".", "m", "d">>),
            File(<<>>, <<"M", "A", "I", "N", "T", "A", "I", "N", "E", "R", "S",
                         ".", "m", "d">>),
            File(<<"src", "pkg">>, <<"L", "i", "c", "e", "n", "s", "e",
                                     ".", "m", "d">>) }
    /\ repo_tree.files =
          {File(<<>>, <<"R", "E", "A", "D", "M", "E", ".", "m", "d">>)}
    /\ repo_tree.dirs = {<<>>}

-----------------------------------------------------------------------------
(* C25: after cleanup_non_markdown_files no file is left under a directory *)
(* named .git, .github, node_modules, build, dist or target, at whatever   *)
(* depth of the repository that directory lies.                            *)
C25_NoFileUnderExcludedDirectory ==
    cleanup_pc = "done" =>
        \A f \in repo_tree.files : \A i \in 1..Len(f.dir) :
            f.dir[i] \notin
                {".git", ".github", "node_modules", "build", "dist", "target"}

-----------------------------------------------------------------------------
(* C26: no file that lies more than MAX_DEPTH = 3 directory levels below   *)
(* the repository root is kept by the cleanup.                             *)
C26_NothingKeptBelowMaxDepth ==
    cleanup_pc = "done" =>
        \A f \in repo_tree.files : Len(f.dir) <= MAX_DEPTH

-----------------------------------------------------------------------------
(* C27: on every path on which lambda_handler created a temporary          *)
(* directory (all clones and the sync succeeded, a clone failed, the sync  *)
(* failed) neither that directory nor anything below it exists when the    *)
(* handler has returned its status dictionary.                             *)
C27_NoTempDirLeftBehind ==
    (handler_pc = "returned" /\ temp_dir # None) =>
        /\ "statusCode" \in DOMAIN handler_return
        /\ \A path \in filesystem : path[1] # temp_dir

C27_Witness ==
    /\ handler_pc = "returned"
    /\ temp_dir = TempRoot
    /\ Len(clone_log) = 2
    /\ sync_log = <<[bucket |-> environ, ok |-> FALSE]>>
    /\ handler_return.statusCode = 500
    /\ filesystem = {}

-----------------------------------------------------------------------------
(* C28: when the event has no 'repositories' entry or an empty list, or    *)
(* BUCKET_NAME is unset or empty, lambda_handler returns statusCode 400    *)
(* and has no effect: no temporary directory is created, no repository is  *)
(* cloned, no S3 sync is run and the bucket is as it was.                  *)
C28_MissingInputRejected ==
    LET no_repositories ==
            \/ "repositories" \notin DOMAIN lambda_event
            \/ lambda_event.repositories = <<>>
        no_bucket == environ \in {None, ""}
    IN  (handler_pc # "idle" /\ (no_repositories \/ no_bucket)) =>
            /\ temp_dir = None
            /\ filesystem = {}
            /\ clone_log = <<>>
            /\ sync_log = <<>>
            /\ bucket_objects = InitialBucket
            /\ handler_pc \in {"start", "returned"}
            /\ handler_pc = "returned" => handler_return.statusCode = 400

C28_Witness ==
    /\ handler_pc = "returned"
    /\ "repositories" \in DOMAIN lambda_event
    /\ Len(lambda_event.repositories) = 2
    /\ environ = ""
    /\ handler_return.statusCode = 400
    /\ temp_dir = None
    /\ clone_log = <<>>
    /\ sync_log = <<>>

====
